---------------------------- MODULE Spec2Model ----------------------------
(***************************************************************************)
(* The article normalization and enrichment pipeline of the insurance news *)
(* agent: safe_parse_response, clean_text, the field extractors,           *)
(* structure_articles, enrich_articles_with_research_references,           *)
(* enrich_article_with_gpt_full (insurance_news_agent.py) and the          *)
(* dashboard's get_enriched_articles (insurance_news_dashboard.py).        *)
(*                                                                         *)
(* Python values are records [k, s]: k is the kind ("absent" for a key a   *)
(* dict does not hold, "none", "int", "str", "list") and s the text of a   *)
(* str, or the items of a list of strings, as a sequence of tokens.  A     *)
(* text is a sequence of tokens; a regular expression search finds the     *)
(* first token of the pattern's class.  A call that may raise returns      *)
(* [exc, val]: exc is "" for a normal return, else the exception class.    *)
(***************************************************************************)
EXTENDS Integers, Sequences, FiniteSets, TLC

VARIABLES pc, response, structured, enriched_with_refs, enriched_articles,
          prompts, replies, signal, returned, call, ret

vars == <<pc, response, structured, enriched_with_refs, enriched_articles,
          prompts, replies, signal, returned, call, ret>>

pipelineVars == <<pc, response, structured, enriched_with_refs,
                  enriched_articles, prompts, replies, signal, returned>>

(* ------------------------------ bounds -------------------------------- *)

\* Raw results in one search response of a pipeline run.
MaxResults == 2

\* Tokens in a text handed to extract_best_date on its own.
MaxTextLen == 2

\* Raw results in a response handed to structure_articles on its own.
MaxFnResults == 1

(* --------------------------- Python values ---------------------------- *)

Absent == [k |-> "absent", s |-> <<>>]

None == [k |-> "none", s |-> <<>>]

\* A non-zero integer: not a string, and truthy.
IntVal == [k |-> "int", s |-> <<>>]

Str(toks) == [k |-> "str", s |-> toks]

List(items) == [k |-> "list", s |-> items]

IsStr(v) == v.k = "str"

\* bool(v): None, "" and [] are falsy.
Truthy(v) == \/ v.k = "int"
             \/ v.k \in {"str", "list"} /\ v.s # <<>>

Ok(v) == [exc |-> "", val |-> v]

Raise(e) == [exc |-> e, val |-> None]

\* dict.get(key, ""): the default only when the key is missing.
DictGet(v) == IF v.k = "absent" THEN Str(<<>>) ELSE v

SeqsUpTo(S, n) == UNION {[1..m -> S] : m \in 0..n}

RECURSIVE SelectTokens(_, _)
SelectTokens(toks, keep) ==
    IF toks = <<>> THEN <<>>
    ELSE IF Head(toks) \in keep
         THEN <<Head(toks)>> \o SelectTokens(Tail(toks), keep)
         ELSE SelectTokens(Tail(toks), keep)

Range(seq) == {seq[i] : i \in DOMAIN seq}

Take(seq, n) == SubSeq(seq, 1, IF Len(seq) < n THEN Len(seq) ELSE n)

(* --------------------------- extract_best_date ------------------------ *)

\* Tokens the first pattern, (20\d{2})[-/](\d{2})[-/](\d{2}), matches, with
\* the digit groups and the separator of each.
NumericDates ==
    { [tok |-> "2024-05-01", y |-> 2024, m |-> 5,  d |-> 1,  sep |-> "-"],
      [tok |-> "2023-11-30", y |-> 2023, m |-> 11, d |-> 30, sep |-> "-"],
      [tok |-> "2024/05/01", y |-> 2024, m |-> 5,  d |-> 1,  sep |-> "/"],
      [tok |-> "2024-13-45", y |-> 2024, m |-> 13, d |-> 45, sep |-> "-"] }

\* Tokens the second pattern, (\d{1,2} \w+ 20\d{2}), matches.
DayMonthYearDates == {"1 May 2024"}

\* Tokens the third pattern, (\w+ \d{1,2}, 20\d{2}), matches.
MonthDayYearDates == {"May 1, 2024"}

patterns == << {n.tok : n \in NumericDates}, DayMonthYearDates, MonthDayYearDates >>

\* datetime.today().strftime("%Y-%m-%d"); no text of the model holds it.
Today == "2026-11-06"

\* re.search(pattern, text): the first match only, or "" for no match.
\* A text that is not a str raises TypeError.
RECURSIVE ReSearch(_, _)
ReSearch(pattern, toks) ==
    IF toks = <<>> THEN ""
    ELSE IF Head(toks) \in pattern THEN Head(toks)
    ELSE ReSearch(pattern, Tail(toks))

DaysInMonth(y, m) ==
    IF m \in {4, 6, 9, 11} THEN 30
    ELSE IF m = 2 THEN (IF y % 4 = 0 /\ (y % 100 # 0 \/ y % 400 = 0) THEN 29 ELSE 28)
    ELSE 31

\* datetime.strptime(s, "%Y-%m-%d"): ValueError unless s is digits joined by
\* hyphens that name a day of the calendar.
Strptime(s) ==
    IF \E n \in NumericDates : n.tok = s
    THEN LET n == CHOOSE n \in NumericDates : n.tok = s
         IN  IF n.sep = "-" /\ n.m \in 1..12 /\ n.d \in 1..DaysInMonth(n.y, n.m)
             THEN Ok(n)
             ELSE [exc |-> "ValueError", val |-> n]
    ELSE [exc |-> "ValueError", val |-> CHOOSE n \in NumericDates : TRUE]

TwoDigits(n) == IF n < 10 THEN "0" \o ToString(n) ELSE ToString(n)

\* date.strftime("%Y-%m-%d")
Strftime(n) == ToString(n.y) \o "-" \o TwoDigits(n.m) \o "-" \o TwoDigits(n.d)

\* One text of the loop over [url, title, content], from pattern p on: the
\* date returned from inside the loop, "" when the loop moves to the next
\* text.  A failed strptime is swallowed by the bare except: continue.
RECURSIVE TryPatterns(_, _)
TryPatterns(toks, p) ==
    IF p > Len(patterns) THEN ""
    ELSE LET match == ReSearch(patterns[p], toks)
         IN  IF match # "" /\ Strptime(match).exc = ""
             THEN Strftime(Strptime(match).val)
             ELSE TryPatterns(toks, p + 1)

RECURSIVE ScanTexts(_)
ScanTexts(texts) ==
    IF texts = <<>> THEN Ok(Str(<<Today>>))
    ELSE IF ~IsStr(Head(texts)) THEN Raise("TypeError")
    ELSE LET found == TryPatterns(Head(texts).s, 1)
         IN  IF found # "" THEN Ok(Str(<<found>>)) ELSE ScanTexts(Tail(texts))

extract_best_date(url, title, content) == ScanTexts(<<url, title, content>>)

(* ------------------------------ clean_text ---------------------------- *)

\* html.unescape, token by token.
Unescape(tok) ==
    IF tok = "&amp;" THEN "&"
    ELSE IF tok = "&lt;b&gt;" THEN "<b>"
    ELSE tok

\* Tokens <[^>]+> matches; each is replaced by a space.
HtmlTags == {"<b>"}

\* Tokens http\S+ matches; each is deleted.
UrlShaped == {"http://t.co/x"}

\* unicodedata.normalize("NFKD", .): a no-break space becomes a space.
Nfkd(tok) == IF tok = "{NBSP}" THEN " " ELSE tok

\* Characters str.isprintable() rejects.
NonPrintable == {"{BEL}"}

\* Runs of whitespace collapse into the separator between two tokens.
Whitespace == {" "}

RECURSIVE CleanTokens(_)
CleanTokens(toks) ==
    IF toks = <<>> THEN <<>>
    ELSE LET unescaped == Unescape(Head(toks))
             normal    == Nfkd(unescaped)
             rest      == CleanTokens(Tail(toks))
         IN  IF \/ unescaped \in HtmlTags
                \/ unescaped \in UrlShaped
                \/ normal \in NonPrintable
                \/ normal \in Whitespace
             THEN rest
             ELSE <<normal>> \o rest

clean_text(text) == IF ~IsStr(text) THEN Str(<<>>) ELSE Str(CleanTokens(text.s))

(* ----------------------- source, title, location ---------------------- *)

\* The tokens of a url that end in a slash.
Slashes == {"https://", "/"}

Scheme == "https://"

RECURSIVE UpToSlash(_)
UpToSlash(toks) ==
    IF toks = <<>> \/ Head(toks) \in Slashes THEN <<>>
    ELSE <<Head(toks)>> \o UpToSlash(Tail(toks))

\* urlparse(url).netloc: what follows the scheme, up to the next slash.
Netloc(toks) ==
    IF toks # <<>> /\ Head(toks) = Scheme THEN UpToSlash(Tail(toks)) ELSE <<>>

\* urlparse(url).netloc.replace("www.", ""): urlparse(None) is a result of
\* bytes, whose replace rejects str arguments; an int has no decode.
extract_domain_as_source(url) ==
    IF url.k = "none" THEN Raise("TypeError")
    ELSE IF ~IsStr(url) THEN Raise("AttributeError")
    ELSE Ok(Str(SelectTokens(Netloc(url.s), Range(url.s) \ {"www."})))

RECURSIVE AfterLastSlash(_)
AfterLastSlash(toks) ==
    IF \A i \in DOMAIN toks : toks[i] \notin Slashes THEN toks
    ELSE AfterLastSlash(Tail(toks))

os_path_basename(url) ==
    IF ~IsStr(url) THEN Raise("TypeError") ELSE Ok(Str(AfterLastSlash(url.s)))

\* Entities the recognizer labels GPE or LOC.
Locations == {"Germany", "France"}

Count(toks, t) == Cardinality({i \in DOMAIN toks : toks[i] = t})

\* Counter(locations).most_common(1): the highest count, the first
\* encountered among equals.
extract_location(text) ==
    LET locations == SelectTokens(text.s, Locations)
    IN  IF locations = <<>> THEN Str(<<"Unknown Location">>)
        ELSE LET best == CHOOSE i \in DOMAIN locations :
                           /\ \A j \in DOMAIN locations :
                                Count(locations, locations[j]) <= Count(locations, locations[i])
                           /\ \A j \in 1..(i - 1) :
                                Count(locations, locations[j]) < Count(locations, locations[i])
             IN  Str(<<locations[best]>>)

(* --------------------------- categorize_article ----------------------- *)

\* str.lower()
Lower(tok) == IF tok = "Climate Change" THEN "climate change" ELSE tok

categories == << [category |-> "Climate Risk",        keywords |-> {"climate change"}],
                 [category |-> "Insurance Exposures", keywords |-> {"insured loss"}],
                 [category |-> "InsurTech",           keywords |-> {"insurtech"}] >>

categorize_article(text) ==
    LET text_lower == {Lower(t) : t \in Range(text.s)}
        hits == {i \in DOMAIN categories : categories[i].keywords \cap text_lower # {}}
    IN  IF hits = {} THEN Str(<<"Uncategorized">>)
        ELSE Str(<<categories[CHOOSE i \in hits : \A j \in hits : i <= j].category>>)

(* -------------------------- safe_parse_response ----------------------- *)

\* A search response: k is its type; for a str, valid says whether it is
\* JSON and inner the type of the value it decodes to; for a dict (or a str
\* decoding to one), has_results says whether the key "results" is there
\* and results_k the type of the value under it; items are the elements of
\* the list the response is or carries; empty marks "" and {}.
Resp(k, valid, inner, has, rk, items, empty) ==
    [k |-> k, valid |-> valid, inner |-> inner, has_results |-> has,
     results_k |-> rk, items |-> items, empty |-> empty]

\* A list of raw results, or the other values safe_parse_response can hand
\* back: k is "list", "none" or "int".
Parsed(k, items) == [k |-> k, items |-> items]

\* json.loads on a str: the decoded value, again as a response value.
json_loads(r) ==
    IF ~r.valid THEN [exc |-> "JSONDecodeError", val |-> r]
    ELSE Ok([r EXCEPT !.k = r.inner, !.valid = FALSE, !.inner = ""])

\* response.get("results", [])
GetResults(r) ==
    IF ~r.has_results THEN Parsed("list", <<>>)
    ELSE Parsed(r.results_k, IF r.results_k = "list" THEN r.items ELSE <<>>)

\* Lines 62-66: the dispatch on the type of the (decoded) response.
Dispatch(r) ==
    IF r.k = "list" THEN Parsed("list", r.items)
    ELSE IF r.k = "dict" THEN GetResults(r)
    ELSE Parsed("list", <<>>)

safe_parse_response(r) ==
    IF r.k = "str"
    THEN LET decoded == json_loads(r)
         IN  IF decoded.exc = "JSONDecodeError" THEN Ok(Parsed("list", <<>>))
             ELSE Ok(Dispatch(decoded.val))
    ELSE Ok(Dispatch(r))

(* --------------------------- structure_articles ----------------------- *)

\* A raw result: a mapping with the values under url, title, source and
\* content (Absent for a missing key), or an element that is no mapping.
RawResult(url, title, source, content) ==
    [map |-> TRUE, url |-> url, title |-> title, source |-> source, content |-> content]

NotAMapping ==
    [map |-> FALSE, url |-> Absent, title |-> Absent, source |-> Absent, content |-> Absent]

\* " ".join(full_content.split()[:800])
SummaryTokens == 800

\* ResolveTitle without the final placeholder: title or os.path.basename(url).
ResolveTitleNoPlaceholder(title, url) ==
    IF Truthy(title) THEN Ok(title) ELSE os_path_basename(url)

\* result.get("title", "") or os.path.basename(url) or "No Title"
ResolveTitle(title, url) ==
    IF Truthy(title) THEN Ok(title)
    ELSE LET base == os_path_basename(url)
         IN  IF base.exc # "" THEN base
             ELSE IF Truthy(base.val) THEN base
             ELSE Ok(Str(<<"No Title">>))

\* result.get("source", "") or extract_domain_as_source(url)
ResolveSource(source, url) ==
    IF Truthy(source) THEN Ok(source) ELSE extract_domain_as_source(url)

\* One iteration of the loop of structure_articles (lines 111-120).
StructureResult(result) ==
    IF ~result.map THEN Raise("AttributeError")
    ELSE LET url          == DictGet(result.url)
             title        == ResolveTitle(DictGet(result.title), url)
             source       == ResolveSource(DictGet(result.source), url)
             full_content == clean_text(DictGet(result.content))
             date         == extract_best_date(url, title.val, full_content)
         IN  IF title.exc # "" THEN title
             ELSE IF source.exc # "" THEN source
             ELSE IF date.exc # "" THEN date
             ELSE Ok([title         |-> title.val,
                      url           |-> url,
                      source        |-> source.val,
                      date          |-> date.val,
                      location      |-> extract_location(full_content),
                      category      |-> categorize_article(full_content),
                      summary_input |-> Str(Take(full_content.s, SummaryTokens)),
                      full_content  |-> full_content])

RECURSIVE StructureLoop(_, _)
StructureLoop(raw_results, acc) ==
    IF raw_results = <<>> THEN [exc |-> "", val |-> acc]
    ELSE LET one == StructureResult(Head(raw_results))
         IN  IF one.exc # "" THEN [exc |-> one.exc, val |-> <<>>]
             ELSE StructureLoop(Tail(raw_results), Append(acc, one.val))

\* len(raw_results) raises TypeError on None and on an int.
structure_articles(r) ==
    LET raw_results == safe_parse_response(r).val
    IN  IF raw_results.k # "list" THEN [exc |-> "TypeError", val |-> <<>>]
        ELSE StructureLoop(raw_results.items, <<>>)

(* ---------------- enrich_articles_with_research_references ------------ *)

trusted_sources == << [org |-> "TNFD",     domains |-> {"tnfd.global"}],
                      [org |-> "IPCC",     domains |-> {"ipcc.ch"}],
                      [org |-> "Swiss Re", domains |-> {"swissre.com"}] >>

RECURSIVE ReferencesFrom(_, _)
ReferencesFrom(url, i) ==
    IF i > Len(trusted_sources) THEN <<>>
    ELSE (IF trusted_sources[i].domains \cap Range(url.s) # {}
          THEN <<trusted_sources[i].org>> ELSE <<>>)
         \o ReferencesFrom(url, i + 1)

\* article["research_references"] = references if references else ["None"]
AddReferences(article) ==
    LET references == ReferencesFrom(article.url, 1)
    IN  [f \in DOMAIN article \cup {"research_references"} |->
            IF f = "research_references"
            THEN List(IF references # <<>> THEN references ELSE <<"None">>)
            ELSE article[f]]

enrich_articles_with_research_references(articles) ==
    [i \in DOMAIN articles |-> AddReferences(articles[i])]

(* ---------------------- enrich_article_with_gpt_full ------------------ *)

\* {article.get("full_content", "")[:3000]}, counted here in tokens.
ContentLimit == 3000

\* The article's part of the prompt (lines 175-180).
BuildPrompt(article) ==
    [title   |-> article.title,
     url     |-> article.url,
     date    |-> article.date,
     source  |-> article.source,
     summary |-> article.summary_input,
     content |-> Str(Take(article.full_content.s, ContentLimit))]

\* What the text-generation collaborator does with one prompt: it raises,
\* or returns text that is not JSON, a JSON list, a JSON object with every
\* field of the requested schema, or a JSON object with only some of them.
ReplyKinds == {"raise", "malformed", "list", "object", "partial"}

Dict(d) == [py |-> "dict", d |-> d]

JsonList == [py |-> "list", d |-> <<>>]

\* The fields the prompt asks for (lines 156-171).
Schema == {"title", "url", "date", "source", "category", "location", "summary",
           "references", "sentiment", "recommendation", "financial_impact"}

\* A reply that follows the requested schema for the prompt it answers.
ObjectReply(prompt) ==
    [title            |-> prompt.title,
     url              |-> prompt.url,
     date             |-> prompt.date,
     source           |-> prompt.source,
     category         |-> Str(<<"Climate Risk">>),
     location         |-> Str(<<"Germany">>),
     summary          |-> Str(<<"summary">>),
     references       |-> List(<<"IPCC">>),
     sentiment        |-> Str(<<"Negative">>),
     recommendation   |-> Str(<<"monitor">>),
     financial_impact |-> Str(<<"losses">>)]

PartialReply(prompt) == [title |-> prompt.title, summary |-> Str(<<"summary">>)]

\* response = llm.invoke(prompt)
llm_invoke(prompt, reply) ==
    IF reply = "raise" THEN [exc |-> "APIError", val |-> JsonList]
    ELSE [exc |-> "", val |-> JsonList]

\* json.loads(response.content): whatever the text decodes to, unvalidated.
json_loads_content(prompt, reply) ==
    IF reply = "malformed" THEN [exc |-> "JSONDecodeError", val |-> JsonList]
    ELSE IF reply = "list" THEN [exc |-> "", val |-> JsonList]
    ELSE IF reply = "partial" THEN [exc |-> "", val |-> Dict(PartialReply(prompt))]
    ELSE [exc |-> "", val |-> Dict(ObjectReply(prompt))]

\* The body of the try (lines 183-184).
TryBlock(prompt, reply) ==
    IF llm_invoke(prompt, reply).exc # "" THEN llm_invoke(prompt, reply)
    ELSE json_loads_content(prompt, reply)

\* ExceptClause narrowed to "except json.JSONDecodeError".
ExceptClauseJsonOnly == {"JSONDecodeError"}

\* The classes "except Exception" catches: every exception the model raises
\* is a subclass of Exception.
ExceptClause == {"APIError", "JSONDecodeError", "TypeError", "AttributeError", "ValueError"}

\* Fallback carrying the article's own category through.
FallbackKeepsCategory(article) ==
    Dict([title            |-> article.title,
          url              |-> article.url,
          date             |-> article.date,
          source           |-> article.source,
          category         |-> article.category,
          summary          |-> Str(<<"GPT failed.">>),
          references       |-> List(<<>>),
          sentiment        |-> Str(<<"Unknown">>),
          recommendation   |-> Str(<<"N/A">>),
          financial_impact |-> Str(<<"Not specified">>)])

\* The record built in the except branch (lines 187-198).
Fallback(article) ==
    Dict([title            |-> article.title,
          url              |-> article.url,
          date             |-> article.date,
          source           |-> article.source,
          category         |-> Str(<<"Uncategorized">>),
          summary          |-> Str(<<"GPT failed.">>),
          references       |-> List(<<>>),
          sentiment        |-> Str(<<"Unknown">>),
          recommendation   |-> Str(<<"N/A">>),
          financial_impact |-> Str(<<"Not specified">>)])

enrich_article_with_gpt_full(article, reply) ==
    LET attempt == TryBlock(BuildPrompt(article), reply)
    IN  IF attempt.exc = "" THEN attempt
        ELSE IF attempt.exc \in ExceptClause THEN [exc |-> "", val |-> Fallback(article)]
        ELSE attempt

\* Collect leaving out the articles whose enrichment failed.
CollectSkipsFailures(acc, article, reply) ==
    IF TryBlock(BuildPrompt(article), reply).exc # "" THEN acc
    ELSE Append(acc, enrich_article_with_gpt_full(article, reply).val)

\* One element of [enrich_article_with_gpt_full(a) for a in ...]: the value
\* the call returned joins the list being built.
Collect(acc, article, reply) == Append(acc, enrich_article_with_gpt_full(article, reply).val)

(* ------------------------------- inputs ------------------------------- *)

UrlSwissRe == Str(<<"https://", "www.", "swissre.com", "/", "2024-05-01", "/", "report">>)

UrlExample == Str(<<"https://", "example.org", "/">>)

TitleDated == Str(<<"Flood", "2023-11-30">>)

ContentFlood == Str(<<"Climate Change", "Germany", "<b>", "insured loss", "http://t.co/x">>)

\* Raw results of the pipeline runs.
PipelineResults ==
    {RawResult(u, t, Absent, c) :
        u \in {None, UrlSwissRe, UrlExample},
        t \in {Absent, TitleDated},
        c \in {Absent, ContentFlood}}
    \cup {NotAMapping}

ListResponse(items) == Resp("list", FALSE, "", FALSE, "", items, items = <<>>)

ResultsResponse(items) == Resp("dict", FALSE, "", TRUE, "list", items, FALSE)

\* The shapes that carry no list of results: None, {}, a dict without
\* "results", {"results": null}, {"results": 5}, an int, "", text that is
\* not JSON, and JSON text of a scalar, of null and of a string.
OtherResponses ==
    { Resp("none", FALSE, "", FALSE, "", <<>>, TRUE),
      Resp("dict", FALSE, "", FALSE, "", <<>>, TRUE),
      Resp("dict", FALSE, "", FALSE, "", <<>>, FALSE),
      Resp("dict", FALSE, "", TRUE, "none", <<>>, FALSE),
      Resp("dict", FALSE, "", TRUE, "int", <<>>, FALSE),
      Resp("int", FALSE, "", FALSE, "", <<>>, FALSE),
      Resp("str", FALSE, "", FALSE, "", <<>>, TRUE),
      Resp("str", FALSE, "", FALSE, "", <<>>, FALSE),
      Resp("str", TRUE, "int", FALSE, "", <<>>, FALSE),
      Resp("str", TRUE, "none", FALSE, "", <<>>, FALSE),
      Resp("str", TRUE, "str", FALSE, "", <<>>, FALSE),
      Resp("str", TRUE, "dict", FALSE, "", <<>>, FALSE),
      Resp("str", TRUE, "dict", TRUE, "none", <<>>, FALSE) }

\* JSON text of a list, and of a dict with the list under "results".
JsonResponses(items) ==
    { Resp("str", TRUE, "list", FALSE, "", items, FALSE),
      Resp("str", TRUE, "dict", TRUE, "list", items, FALSE) }

PipelineResponses ==
    {ListResponse(items) : items \in SeqsUpTo(PipelineResults, MaxResults)}
    \cup {ResultsResponse(items) : items \in SeqsUpTo(PipelineResults, MaxResults)}
    \cup OtherResponses

\* "not response"
Falsy(r) ==
    \/ r.k = "none"
    \/ r.k = "list" /\ r.items = <<>>
    \/ r.k \in {"str", "dict"} /\ r.empty

NoResponse == Resp("unset", FALSE, "", FALSE, "", <<>>, TRUE)

NoCall == [fn |-> ""]

NoReturn == [fn |-> ""]

(* ------------------------ get_enriched_articles ----------------------- *)

Init ==
    /\ pc = "start"
    /\ response = NoResponse
    /\ structured = <<>>
    /\ enriched_with_refs = <<>>
    /\ enriched_articles = <<>>
    /\ prompts = <<>>
    /\ replies = <<>>
    /\ signal = ""
    /\ returned = <<>>
    /\ call = NoCall
    /\ ret = NoReturn

\* except Exception as e: st.error(...); return []  (lines 36-38)
Failed ==
    /\ signal' = "error"
    /\ returned' = <<>>
    /\ pc' = "done"

\* tool.invoke raises (line 19).
SearchRaises ==
    /\ pc = "start"
    /\ Failed
    /\ UNCHANGED <<response, structured, enriched_with_refs, enriched_articles,
                   prompts, replies, call, ret>>

\* tool.invoke returns; an empty response ends the run (lines 19-24).
SearchReturns ==
    /\ pc = "start"
    /\ \E r \in PipelineResponses :
         /\ response' = r
         /\ IF Falsy(r)
            THEN signal' = "warning" /\ returned' = <<>> /\ pc' = "done"
            ELSE pc' = "structure" /\ UNCHANGED <<signal, returned>>
    /\ UNCHANGED <<structured, enriched_with_refs, enriched_articles,
                   prompts, replies, call, ret>>

\* structured = structure_articles(response) (lines 25-28).
StructureArticles ==
    /\ pc = "structure"
    /\ LET s == structure_articles(response)
       IN  IF s.exc # "" THEN Failed /\ UNCHANGED structured
           ELSE /\ structured' = s.val
                /\ IF s.val = <<>>
                   THEN signal' = "warning" /\ returned' = <<>> /\ pc' = "done"
                   ELSE pc' = "references" /\ UNCHANGED <<signal, returned>>
    /\ UNCHANGED <<response, enriched_with_refs, enriched_articles,
                   prompts, replies, call, ret>>

\* Line 30; the articles are changed in place, so structured sees the new
\* field too.
AddResearchReferences ==
    /\ pc = "references"
    /\ enriched_with_refs' = enrich_articles_with_research_references(structured)
    /\ structured' = enriched_with_refs'
    /\ pc' = "enrich"
    /\ UNCHANGED <<response, enriched_articles, prompts, replies, signal,
                   returned, call, ret>>

\* One element of the list comprehension of line 31: the prompt of the next
\* article goes to the collaborator, which answers in one of its ways.
EnrichNext ==
    /\ pc = "enrich"
    /\ Len(prompts) < Len(enriched_with_refs)
    /\ \E reply \in ReplyKinds :
         LET article == enriched_with_refs[Len(prompts) + 1]
         IN  /\ prompts' = Append(prompts, BuildPrompt(article))
             /\ replies' = Append(replies, reply)
             /\ IF enrich_article_with_gpt_full(article, reply).exc # ""
                THEN Failed /\ UNCHANGED enriched_articles
                ELSE /\ enriched_articles' = Collect(enriched_articles, article, reply)
                     /\ UNCHANGED <<pc, signal, returned>>
    /\ UNCHANGED <<response, structured, enriched_with_refs, call, ret>>

\* return enriched_articles (lines 33-34).
ReturnEnriched ==
    /\ pc = "enrich"
    /\ Len(prompts) = Len(enriched_with_refs)
    /\ returned' = enriched_articles
    /\ pc' = "done"
    /\ UNCHANGED <<response, structured, enriched_with_refs, enriched_articles,
                   prompts, replies, signal, call, ret>>

Next ==
    \/ SearchRaises
    \/ SearchReturns
    \/ StructureArticles
    \/ AddResearchReferences
    \/ EnrichNext
    \/ ReturnEnriched

Spec == Init /\ [][Next]_vars

(* --------------------- the functions, called alone -------------------- *)

UrlTnfd == Str(<<"https://", "tnfd.global", "/", "2024/05/01", "/", "2023-11-30">>)

\* Raw results whose fields are each absent, null, empty, not a string, or
\* a string.
FnResults ==
    {RawResult(u, t, s, c) :
        u \in {Absent, None, IntVal, Str(<<>>), UrlExample, UrlTnfd},
        t \in {Absent, None, IntVal, Str(<<>>), TitleDated},
        s \in {Absent, None, Str(<<"Reuters">>)},
        c \in {Absent, None, IntVal, ContentFlood}}
    \cup {NotAMapping}

\* Every shape of response, around a short list of raw results.
ParseResponses ==
    LET lists == SeqsUpTo({RawResult(UrlSwissRe, Absent, Absent, Absent), NotAMapping}, 2)
    IN  {ListResponse(items) : items \in lists}
        \cup {ResultsResponse(items) : items \in lists}
        \cup UNION {JsonResponses(items) : items \in lists}
        \cup OtherResponses

InitFn ==
    /\ Init!1 /\ Init!2 /\ Init!3 /\ Init!4 /\ Init!5
    /\ Init!6 /\ Init!7 /\ Init!8 /\ Init!9
    /\ \/ \E r \in ParseResponses :
            call \in {[fn |-> f, response |-> r] :
                         f \in {"safe_parse_response", "structure_articles"}}
       \/ \E n \in 0..MaxFnResults : \E items \in [1..n -> FnResults] :
            call \in {[fn |-> "structure_articles", response |-> r] :
                         r \in {ListResponse(items), ResultsResponse(items)}}
    /\ ret = NoReturn

CallSafeParse ==
    /\ call.fn = "safe_parse_response"
    /\ ret = NoReturn
    /\ ret' = [fn |-> call.fn, out |-> safe_parse_response(call.response)]
    /\ UNCHANGED <<pipelineVars, call>>

CallStructure ==
    /\ call.fn = "structure_articles"
    /\ ret = NoReturn
    /\ ret' = [fn |-> call.fn, out |-> structure_articles(call.response)]
    /\ UNCHANGED <<pipelineVars, call>>

\* The caller's next line: the records structure_articles returned go
\* through enrich_articles_with_research_references.
CallAddReferences ==
    /\ ret.fn = "structure_articles"
    /\ ret.out.exc = ""
    /\ ret' = [fn  |-> "enrich_articles_with_research_references",
               out |-> Ok(enrich_articles_with_research_references(ret.out.val))]
    /\ UNCHANGED <<pipelineVars, call>>

NextFn == CallSafeParse \/ CallStructure \/ CallAddReferences

SpecFn == InitFn /\ [][NextFn]_vars

\* The tokens of the texts handed to extract_best_date: the date shapes of
\* the three patterns and a word none of them matches.
DateTokens == {"2024-05-01", "2023-11-30", "2024/05/01", "2024-13-45",
               "1 May 2024", "May 1, 2024", "flood"}

InitDate ==
    /\ Init!1 /\ Init!2 /\ Init!3 /\ Init!4 /\ Init!5
    /\ Init!6 /\ Init!7 /\ Init!8 /\ Init!9
    /\ \E nu \in 0..MaxTextLen, nt \in 0..MaxTextLen, nc \in 0..1 :
         \E u \in [1..nu -> DateTokens], t \in [1..nt -> DateTokens], c \in [1..nc -> DateTokens] :
            call = [fn |-> "extract_best_date", url |-> Str(u), title |-> Str(t), content |-> Str(c)]
    /\ ret = NoReturn

CallExtractBestDate ==
    /\ call.fn = "extract_best_date"
    /\ ret = NoReturn
    /\ ret' = [fn |-> call.fn, out |-> extract_best_date(call.url, call.title, call.content)]
    /\ UNCHANGED <<pipelineVars, call>>

NextDate == CallExtractBestDate

SpecDate == InitDate /\ [][NextDate]_vars

(* ------------------------------- claims ------------------------------- *)

\* The branch enrich_article_with_gpt_full took on its i-th call.
Outcome(i) == IF TryBlock(prompts[i], replies[i]).exc = "" THEN "SUCCESS" ELSE "FAILURE"

\* C1: enriching a batch yields exactly one enriched record per article, in
\* input order, whatever the collaborator does: the records so far are as
\* many as the articles handed over, the i-th is the fallback of the i-th
\* article or what the i-th reply decoded to, and a run that had articles
\* to enrich returns as many records as articles.
EnrichmentOneToOne ==
    /\ Len(enriched_articles) = Len(prompts)
    /\ \A i \in DOMAIN enriched_articles :
         /\ i <= Len(enriched_with_refs)
         /\ enriched_articles[i] =
              IF Outcome(i) = "FAILURE" THEN Fallback(enriched_with_refs[i])
              ELSE json_loads_content(BuildPrompt(enriched_with_refs[i]), replies[i]).val
    /\ (pc = "done" /\ enriched_with_refs # <<>>) =>
         /\ Len(returned) = Len(enriched_with_refs)
         /\ returned = enriched_articles

\* C1 witness: a batch of two articles, every call raised, two records back.
EveryCallRaisedWitness ==
    /\ pc = "done"
    /\ Len(enriched_with_refs) = 2
    /\ \A i \in DOMAIN replies : replies[i] = "raise"
    /\ Len(returned) = 2

\* C2: when the collaborator raises, the call returns, with a record of the
\* article's title, url, date and source, category "Uncategorized", sentiment
\* "Unknown" and no references, the same for equal articles.
FallbackOnRaise ==
    \A i \in DOMAIN replies :
        replies[i] = "raise" =>
            LET e == enriched_articles[i]
                a == enriched_with_refs[i]
            IN  /\ signal # "error"
                /\ i \in DOMAIN enriched_articles
                /\ e.py = "dict"
                /\ e.d.title = a.title
                /\ e.d.url = a.url
                /\ e.d.date = a.date
                /\ e.d.source = a.source
                /\ e.d.category = Str(<<"Uncategorized">>)
                /\ e.d.sentiment = Str(<<"Unknown">>)
                /\ e.d.references = List(<<>>)
                /\ \A j \in DOMAIN enriched_articles :
                     (replies[j] = "raise" /\ enriched_with_refs[j] = a)
                        => enriched_articles[j] = e

\* C2 witness: the collaborator raised for an article that had a category.
RaisedForCategorizedWitness ==
    \E i \in DOMAIN enriched_articles :
        /\ replies[i] = "raise"
        /\ enriched_with_refs[i].category = Str(<<"Climate Risk">>)
        /\ enriched_with_refs[i].title = TitleDated

\* C3: a reply that does not conform to the schema (malformed JSON, a JSON
\* list, an object missing fields) yields the fallback record, and only a
\* reply that parses to a record with every field of the schema yields
\* anything else.
NonConformingYieldsFallback ==
    \A i \in DOMAIN enriched_articles :
        LET e == enriched_articles[i]
        IN  \/ e = Fallback(enriched_with_refs[i])
            \/ e.py = "dict" /\ Schema \subseteq DOMAIN e.d

\* What holds of the calls made so far: the i-th prompt is that of the i-th
\* article, each call has ended in SUCCESS or FAILURE with its record, and a
\* run that had articles to enrich has called for every one of them.
CallsInOrder ==
    /\ Len(replies) = Len(prompts)
    /\ Len(prompts) <= Len(enriched_with_refs)
    /\ \A i \in DOMAIN prompts :
         /\ prompts[i] = BuildPrompt(enriched_with_refs[i])
         /\ i \in DOMAIN enriched_articles
         /\ Outcome(i) = "FAILURE" <=> replies[i] \in {"raise", "malformed"}
         /\ Outcome(i) = "FAILURE" => enriched_articles[i] = Fallback(enriched_with_refs[i])
    /\ (pc = "done" /\ enriched_with_refs # <<>>) =>
         Len(prompts) = Len(enriched_with_refs)

\* A step that calls the collaborator makes one call, after the calls made
\* before, and leaves that call's record behind.
OneCallAtATime ==
    prompts' # prompts =>
        /\ Len(prompts') = Len(prompts) + 1
        /\ SubSeq(prompts', 1, Len(prompts)) = prompts
        /\ Len(enriched_articles') = Len(prompts')

\* C4: the collaborator is called once per article, in input order, one call
\* at a time and never again after a failure; every call ends in SUCCESS or
\* FAILURE, and a FAILURE does not keep the later articles from being called.
OncePerArticleInOrder == []CallsInOrder /\ [][OneCallAtATime]_vars

\* C4 witness: the first call failed and the second article was still called.
CalledAfterFailureWitness ==
    /\ pc = "done"
    /\ Len(prompts) = 2
    /\ replies[1] = "raise"
    /\ replies[2] = "object"
    /\ enriched_with_refs[1] # enriched_with_refs[2]

\* C5: a run ends with a sequence of records or with the top-level failure
\* signal; the signal is given only when the search collaborator raised,
\* and then neither the structurer nor the text-generation collaborator
\* ran and no record came back.
FailureSignalOnlyFromSearch ==
    pc = "done" =>
        /\ signal = "error" =>
             /\ response = NoResponse
             /\ structured = <<>>
             /\ prompts = <<>>
             /\ returned = <<>>
        /\ signal # "error" => returned = enriched_articles

\* The value the claim C6 gives for a response that is not a str.
ClaimedDispatch(r) ==
    IF r.k = "list" THEN Parsed("list", r.items)
    ELSE IF r.k = "dict" /\ r.has_results THEN Parsed(r.results_k, r.items)
    ELSE Parsed("list", <<>>)

\* C6: safe_parse_response never raises and returns a sequence: the list
\* itself, the value under "results", the same dispatch on what a valid
\* JSON string decodes to, and the empty sequence otherwise.
ParseReturnsSequence ==
    ret.fn = "safe_parse_response" =>
        LET r == call.response
        IN  /\ ret.out.exc = ""
            /\ ret.out.val.k = "list"
            /\ ret.out.val =
                 IF r.k = "str"
                 THEN (IF r.valid THEN ClaimedDispatch(json_loads(r).val)
                       ELSE Parsed("list", <<>>))
                 ELSE ClaimedDispatch(r)

\* The fields structure_articles sets (line 120).
StructuredFields == {"title", "url", "source", "date", "location", "category",
                     "summary_input", "full_content"}

Populated(article, fields) ==
    /\ fields \subseteq DOMAIN article
    /\ \A f \in fields : article[f].k \notin {"none", "absent"}
    /\ Truthy(article.title)

\* C7 as stated: every record structure_articles returns has every
\* documented field, research_references among them, present and non-null.
StructuredHasAllFields ==
    (ret.fn = "structure_articles" /\ ret.out.exc = "") =>
        \A i \in DOMAIN ret.out.val :
            Populated(ret.out.val[i], StructuredFields \cup {"research_references"})

\* C7 amended: every record structure_articles returns has title
\* (non-empty), url, source, date, location, category, summary_input and
\* full_content present and non-null, and no research_references; that
\* field is present and non-empty once
\* enrich_articles_with_research_references has processed the record.
StructuredFieldsPopulated ==
    /\ (ret.fn = "structure_articles" /\ ret.out.exc = "") =>
         \A i \in DOMAIN ret.out.val :
            /\ Populated(ret.out.val[i], StructuredFields)
            /\ "research_references" \notin DOMAIN ret.out.val[i]
    /\ ret.fn = "enrich_articles_with_research_references" =>
         \A i \in DOMAIN ret.out.val :
            /\ Populated(ret.out.val[i], StructuredFields \cup {"research_references"})
            /\ Truthy(ret.out.val[i].research_references)

\* C7 witness: a raw result with a null title, an absent source and a null
\* content was structured and tagged.
DefaultedFieldsWitness ==
    /\ ret.fn = "enrich_articles_with_research_references"
    /\ Len(ret.out.val) = 1
    /\ call.response.items[1].url = UrlExample
    /\ call.response.items[1].title = None
    /\ call.response.items[1].source = Absent
    /\ call.response.items[1].content = None

\* C8: structure_articles does not raise on a malformed raw result: it
\* returns one record per parsed raw result.
StructureNeverRaises ==
    (ret.fn = "structure_articles"
        /\ safe_parse_response(call.response).val.k = "list") =>
        /\ ret.out.exc = ""
        /\ Len(ret.out.val) = Len(safe_parse_response(call.response).val.items)

\* The dates of a text that strptime accepts, in the order of the text.
ParseableDates(text) == SelectTokens(text.s, {t \in Range(text.s) : Strptime(t).exc = ""})

\* C9: extract_best_date returns the first date that parses, looking
\* through url, title and content in that order, also when a date-shaped
\* match that does not parse stands before it in the text; it returns
\* today's date only when no text holds a date that parses.
FirstParseableDate ==
    ret.fn = "extract_best_date" =>
        LET texts == <<call.url, call.title, call.content>>
            withDate == {i \in 1..3 : ParseableDates(texts[i]) # <<>>}
        IN  /\ ret.out.exc = ""
            /\ IF withDate = {} THEN ret.out.val = Str(<<Today>>)
               ELSE LET first == CHOOSE i \in withDate : \A j \in withDate : i <= j
                    IN  ret.out.val = Str(<<Head(ParseableDates(texts[first]))>>)

\* The fields the dashboard indexes on every record (lines 112-132, 164).
DashboardFields == {"title", "url", "date", "source", "category", "location",
                    "summary", "sentiment", "recommendation", "financial_impact"}

\* C10: every enriched record handed on, from the SUCCESS branch (a reply
\* that follows the schema) or from the FAILURE branch (the fallback),
\* carries every field the dashboard indexes; after a failed enrichment the
\* location of the article is still on the record.
EnrichedCarriesDashboardFields ==
    \A i \in DOMAIN enriched_articles :
        (Outcome(i) = "FAILURE" \/ replies[i] = "object") =>
            /\ enriched_articles[i].py = "dict"
            /\ DashboardFields \subseteq DOMAIN enriched_articles[i].d
            /\ Outcome(i) = "FAILURE" =>
                 enriched_articles[i].d.location = enriched_with_refs[i].location

=============================================================================
